---- MODULE Spec2Model ----
(***************************************************************************)
(* Model of server.js: an Express application with seven route handlers    *)
(* (/, /tools, /wiki, /clima, /vuelos, /hospedaje, /consejos).             *)
(*                                                                         *)
(* A request occupies a slot.  Its handler runs as one step, except the    *)
(* two handlers that await an outbound axios call, which run as a start    *)
(* step, the settling of the call, and a resume step.                      *)
(*                                                                         *)
(* A JavaScript string is a sequence of symbols.  User-supplied text is    *)
(* spelled character by character; the fixed text of a template literal    *)
(* is one symbol per literal chunk.                                        *)
(***************************************************************************)
EXTENDS Integers, Sequences, FiniteSets

VARIABLES env, pc, req, outbound, response, rnd, res, crashed

vars == <<env, pc, req, outbound, response, rnd, res, crashed>>

(***************************************************************************)
(* Bounds of the model.                                                    *)
(***************************************************************************)
\* Number of requests that can be in flight at once.
MaxInFlight == 2
\* Resolution of the random source: Math.random() is k / RandDen, k < RandDen.
RandDen == 1000

Slots == 1..MaxInFlight

(***************************************************************************)
(* JavaScript values.                                                      *)
(***************************************************************************)
Undef == [t |-> "undefined", v |-> <<>>]
Null == [t |-> "null", v |-> <<>>]
Str(s) == [t |-> "string", v |-> s]
\* A number, held by its decimal digits.
Num(digits) == [t |-> "number", v |-> digits]
\* An object, held by its properties; an absent property reads as undefined.
Obj(props) == [t |-> "object", p |-> props]
\* An array, held by its elements.
Arr(elems) == [t |-> "array", e |-> elems]

\* ToBoolean, as used by `!x` and `x || y`.
Truthy(x) ==
  CASE x.t = "undefined" -> FALSE
    [] x.t = "null" -> FALSE
    [] x.t = "string" -> x.v # <<>>
    [] x.t = "number" -> x.v # <<"0">>
    [] OTHER -> TRUE

\* Reading a property of undefined or null throws a TypeError.
Nullish(x) == x.t \in {"undefined", "null"}

\* o.k for a value o that is not nullish.
Get(o, k) == IF o.t = "object" /\ k \in DOMAIN o.p THEN o.p[k] ELSE Undef

\* o?.k
OptGet(o, k) == IF Nullish(o) THEN Undef ELSE Get(o, k)

\* a[0] for a value a that is not nullish.
First(a) == IF a.t = "array" /\ Len(a.e) >= 1 THEN a.e[1] ELSE Undef

\* a || b
OrElse(a, b) == IF Truthy(a) THEN a ELSE b

\* The message of the TypeError thrown by reading property k of nullish o.
TypeErrorMessage(o, k) ==
  "Cannot read properties of " \o o.t \o " (reading '" \o k \o "')"

\* The message of the TypeError thrown by destructuring property k of nullish o.
DestructureMessage(o, k) ==
  "Cannot destructure property '" \o k \o "' of 'req.body' as it is " \o o.t \o "."

\* The string a value becomes when interpolated into a template literal.
StringOf(x) ==
  CASE x.t = "string" -> x.v
    [] x.t = "number" -> x.v
    [] x.t = "undefined" -> <<"undefined">>
    [] x.t = "null" -> <<"null">>
    [] OTHER -> <<"[object Object]">>

(***************************************************************************)
(* String operations.                                                      *)
(***************************************************************************)
LowerOf(c) ==
  CASE c = "A" -> "a" [] c = "B" -> "b" [] c = "C" -> "c" [] c = "D" -> "d"
    [] c = "E" -> "e" [] c = "F" -> "f" [] c = "G" -> "g" [] c = "H" -> "h"
    [] c = "I" -> "i" [] c = "J" -> "j" [] c = "K" -> "k" [] c = "L" -> "l"
    [] c = "M" -> "m" [] c = "N" -> "n" [] c = "O" -> "o" [] c = "P" -> "p"
    [] c = "Q" -> "q" [] c = "R" -> "r" [] c = "S" -> "s" [] c = "T" -> "t"
    [] c = "U" -> "u" [] c = "V" -> "v" [] c = "W" -> "w" [] c = "X" -> "x"
    [] c = "Y" -> "y" [] c = "Z" -> "z" [] OTHER -> c

\* String.prototype.toLowerCase
toLowerCase(s) == [k \in 1..Len(s) |-> LowerOf(s[k])]

\* String.prototype.includes
includes(s, sub) ==
  \E k \in 0..(Len(s) - Len(sub)) : SubSeq(s, k + 1, k + Len(sub)) = sub

\* encodeURIComponent, on the characters the inputs use.
EncodeChar(c) ==
  CASE c = " " -> "%20" [] c = "&" -> "%26" [] c = "/" -> "%2F"
    [] c = "?" -> "%3F" [] c = "=" -> "%3D" [] c = "#" -> "%23"
    [] OTHER -> c

encodeURIComponent(s) == [k \in 1..Len(s) |-> EncodeChar(s[k])]

\* The decimal digits of a natural number, as `'AV' + n` writes them.
Digit(n) ==
  CASE n = 0 -> "0" [] n = 1 -> "1" [] n = 2 -> "2" [] n = 3 -> "3"
    [] n = 4 -> "4" [] n = 5 -> "5" [] n = 6 -> "6" [] n = 7 -> "7"
    [] n = 8 -> "8" [] n = 9 -> "9"

RECURSIVE Digits(_)
Digits(n) == IF n < 10 THEN <<Digit(n)>> ELSE Digits(n \div 10) \o <<Digit(n % 10)>>

\* Math.floor(Math.random() * n), for the draw k / RandDen.
FloorRandom(k, n) == (k * n) \div RandDen

(***************************************************************************)
(* Completions of a handler's try block, replies, and axios results.       *)
(***************************************************************************)
Reply(status, body) == [status |-> status, body |-> body]

\* The try block ended by `return res...json(...)`.
Return(reply) == [c |-> "return", reply |-> reply]
\* The try block threw an error with this message.
Throw(message) == [c |-> "throw", message |-> message]
\* The try block is suspended on `await axios.get(url)`.
Await(url) == [c |-> "await", url |-> url]

\* No outbound call issued / issued and not settled / settled.
NoCall == [kind |-> "none", message |-> "", data |-> Undef]
Pending == [kind |-> "pending", message |-> "", data |-> Undef]
Rejected(message) == [kind |-> "rejected", message |-> message, data |-> Undef]
Resolved(data) == [kind |-> "resolved", message |-> "", data |-> data]

\* The `error` text of each handler's catch block.
CatchLabel(path) ==
  CASE path = "/wiki" -> "Error al consultar Wikipedia"
    [] path = "/clima" -> "Error al consultar el clima"
    [] path = "/vuelos" -> "Error al buscar vuelos"
    [] path = "/hospedaje" -> "Error al buscar hospedaje"
    [] path = "/consejos" -> "Error al generar recomendaciones"

\* Faulty variant: the /consejos handler left without its try/catch.
TryCatchAllButConsejos(path) == path \in {"/wiki", "/clima", "/vuelos", "/hospedaje"}
\* The handlers whose body is wrapped in try/catch.
TryCatch(path) == path \in {"/wiki", "/clima", "/vuelos", "/hospedaje", "/consejos"}

\* Faulty variant: the catch block replies without res.status(500).
CatchOmitsStatus(path, message) ==
  Reply(200, [error |-> CatchLabel(path), mensaje |-> message])
\* The catch block: res.status(500).json({ error, mensaje: error.message }).
Catch(path, message) ==
  Reply(500, [error |-> CatchLabel(path), mensaje |-> message])

\* const { x = d } = ...: the default applies to undefined only.
Default(x, d) == IF x.t = "undefined" THEN d ELSE x

MissingCiudad == Reply(400, [error |-> "Se requiere el parámetro ciudad"])

(***************************************************************************)
(* GET / and GET /tools                                                    *)
(***************************************************************************)
RootReply ==
  Reply(200, [status |-> "online",
              message |-> "MCP Travel Assistant API is running",
              endpoints |-> <<"/wiki", "/clima", "/vuelos", "/hospedaje", "/consejos">>])

ToolsReply ==
  Reply(200, [tools |-> <<
    [name |-> "consultarWikipedia", required |-> <<"ciudad">>],
    [name |-> "consultarClima", required |-> <<"ciudad">>],
    [name |-> "buscarVuelos", required |-> <<"origen", "destino", "fecha">>],
    [name |-> "buscarHospedaje", required |-> <<"ciudad">>],
    [name |-> "obtenerRecomendaciones", required |-> <<"destino">>] >>])

(***************************************************************************)
(* GET /wiki                                                               *)
(***************************************************************************)
WikiUrl(ciudad) ==
  <<"https://es.wikipedia.org/api/rest_v1/page/summary/">>
    \o encodeURIComponent(StringOf(ciudad))

\* The try block up to the await.
WikiTry(query) ==
  LET ciudad == Get(query, "ciudad")
  IN  IF ~Truthy(ciudad) THEN Return(MissingCiudad) ELSE Await(WikiUrl(ciudad))

\* The try block from the await on, given how the call settled.
WikiResumeTry(r) ==
  IF r.kind = "rejected" THEN Throw(r.message)
  ELSE IF Nullish(r.data) THEN Throw(TypeErrorMessage(r.data, "title"))
  ELSE Return(Reply(200,
         [titulo |-> Get(r.data, "title"),
          extracto |-> Get(r.data, "extract"),
          url |-> OrElse(OptGet(OptGet(Get(r.data, "content_urls"), "desktop"), "page"),
                         Str(<<>>)),
          imagen |-> OrElse(OptGet(Get(r.data, "thumbnail"), "source"), Null)]))

(***************************************************************************)
(* GET /clima                                                              *)
(***************************************************************************)
ClimaUrl(ciudad, key) ==
  <<"https://api.openweathermap.org/data/2.5/weather?q=">>
    \o encodeURIComponent(StringOf(ciudad))
    \o <<"&units=metric&lang=es&appid=">> \o StringOf(key)

MissingKey == Reply(500, [error |-> "API key de OpenWeather no configurada"])

\* Faulty variant: the credential is checked before ciudad.
ClimaTryKeyFirst(query, key) ==
  LET ciudad == Get(query, "ciudad")
  IN  IF ~Truthy(key) THEN Return(MissingKey)
      ELSE IF ~Truthy(ciudad) THEN Return(MissingCiudad)
      ELSE Await(ClimaUrl(ciudad, key))

\* Faulty variant: the credential is not checked.
ClimaTryNoKeyCheck(query, key) ==
  LET ciudad == Get(query, "ciudad")
  IN  IF ~Truthy(ciudad) THEN Return(MissingCiudad)
      ELSE Await(ClimaUrl(ciudad, key))

\* The try block up to the await; key is process.env.OPENWEATHER_API_KEY.
ClimaTry(query, key) ==
  LET ciudad == Get(query, "ciudad")
  IN  IF ~Truthy(ciudad) THEN Return(MissingCiudad)
      ELSE IF ~Truthy(key) THEN Return(MissingKey)
      ELSE Await(ClimaUrl(ciudad, key))

\* The try block from the await on; the object literal is evaluated in order.
ClimaResumeTry(r) ==
  IF r.kind = "rejected" THEN Throw(r.message)
  ELSE IF Nullish(r.data) THEN Throw(TypeErrorMessage(r.data, "name"))
  ELSE
    LET sys == Get(r.data, "sys")
        main == Get(r.data, "main")
        weather == Get(r.data, "weather")
    IN  IF Nullish(sys) THEN Throw(TypeErrorMessage(sys, "country"))
        ELSE IF Nullish(main) THEN Throw(TypeErrorMessage(main, "temp"))
        ELSE IF Nullish(weather) THEN Throw(TypeErrorMessage(weather, "0"))
        ELSE IF Nullish(First(weather))
          THEN Throw(TypeErrorMessage(First(weather), "description"))
        ELSE Return(Reply(200,
               [ciudad |-> Get(r.data, "name"),
                pais |-> Get(sys, "country"),
                temperatura |-> Get(main, "temp"),
                sensacionTermica |-> Get(main, "feels_like"),
                humedad |-> Get(main, "humidity"),
                condicion |-> Get(First(weather), "description"),
                icono |-> Str(<<"https://openweathermap.org/img/wn/">>
                              \o StringOf(Get(First(weather), "icon"))
                              \o <<"@2x.png">>)]))

(***************************************************************************)
(* POST /vuelos                                                            *)
(***************************************************************************)
MissingVuelos ==
  Reply(400, [error |-> "Se requieren los parámetros origen, destino y fecha"])

\* 'AV' + Math.floor(Math.random() * 1000)
NumeroVuelo(prefix, k) == Str(prefix \o Digits(FloorRandom(k, 1000)))

\* Faulty variant: Math.round in place of Math.floor.
VueloPrecioRounded(k, base) == ((k * 300 + RandDen \div 2) \div RandDen) + base
\* Math.floor(Math.random() * 300) + base
VueloPrecio(k, base) == FloorRandom(k, 300) + base

Vuelo(aerolinea, prefix, kn, kp, base, body, salida, llegada, duracion, escalas) ==
  [aerolinea |-> aerolinea,
   numeroVuelo |-> NumeroVuelo(prefix, kn),
   origen |-> Get(body, "origen"),
   destino |-> Get(body, "destino"),
   fecha |-> Get(body, "fecha"),
   horaSalida |-> salida,
   horaLlegada |-> llegada,
   duracion |-> duracion,
   precio |-> VueloPrecio(kp, base),
   moneda |-> "USD",
   escalas |-> escalas]

\* Whether the try block reaches the Math.random() calls.
VuelosDraws(body) ==
  /\ ~Nullish(body)
  /\ Truthy(Get(body, "origen"))
  /\ Truthy(Get(body, "destino"))
  /\ Truthy(Get(body, "fecha"))

\* The try block; d holds the six draws in the order the array literal takes them.
VuelosTry(body, d) ==
  IF Nullish(body) THEN Throw(DestructureMessage(body, "origen"))
  ELSE IF ~Truthy(Get(body, "origen")) \/ ~Truthy(Get(body, "destino"))
          \/ ~Truthy(Get(body, "fecha"))
    THEN Return(MissingVuelos)
  ELSE Return(Reply(200, [vuelos |-> <<
         Vuelo("Avianca", <<"A", "V">>, d[1], d[2], 200, body,
               "08:30", "10:45", "2h 15m", 0),
         Vuelo("LATAM", <<"L", "A">>, d[3], d[4], 180, body,
               "12:15", "14:50", "2h 35m", 1),
         Vuelo("Copa Airlines", <<"C", "M">>, d[5], d[6], 220, body,
               "16:40", "19:10", "2h 30m", 0) >>]))

(***************************************************************************)
(* GET /hospedaje                                                          *)
(***************************************************************************)
\* Math.floor(Math.random() * span) + base
HospedajePrecio(k, span, base) == FloorRandom(k, span) + base

\* Faulty variant: the entry date finds its way into the text.
UbicacionWithDates(zona, query) ==
  Str(<<zona>> \o StringOf(Get(query, "ciudad")) \o StringOf(Get(query, "fechaEntrada")))
\* `Centro de ${ciudad}`
Ubicacion(zona, query) == Str(<<zona>> \o StringOf(Get(query, "ciudad")))

Hospedaje(nombre, tipo, zona, k, span, base, query, habitaciones, banos, capacidad, calificacion, opiniones, imagen) ==
  [nombre |-> nombre,
   tipo |-> tipo,
   ubicacion |-> Ubicacion(zona, query),
   precio |-> HospedajePrecio(k, span, base),
   moneda |-> "USD",
   porNoche |-> TRUE,
   habitaciones |-> habitaciones,
   banos |-> banos,
   capacidad |-> capacidad,
   calificacion |-> calificacion,
   opiniones |-> opiniones,
   imagen |-> imagen]

\* Whether the try block reaches the Math.random() calls.
HospedajeDraws(query) == Truthy(Get(query, "ciudad"))

\* The try block; d holds the three draws in order.
HospedajeTry(query, d) ==
  IF ~Truthy(Get(query, "ciudad")) THEN Return(MissingCiudad)
  ELSE Return(Reply(200, [hospedajes |-> <<
         Hospedaje("Apartamento Céntrico", "Apartamento entero", "Centro de ",
                   d[1], 100, 50, query, 2, 1, 4, "4.8", 123,
                   "https://via.placeholder.com/300x200?text=Apartamento"),
         Hospedaje("Hotel Boutique", "Habitación de hotel", "Zona turística de ",
                   d[2], 150, 80, query, 1, 1, 2, "4.6", 87,
                   "https://via.placeholder.com/300x200?text=Hotel"),
         Hospedaje("Casa Familiar", "Casa entera", "Zona residencial de ",
                   d[3], 200, 120, query, 3, 2, 6, "4.9", 45,
                   "https://via.placeholder.com/300x200?text=Casa") >>]))

(***************************************************************************)
(* POST /consejos                                                          *)
(***************************************************************************)
MissingDestino == Reply(400, [error |-> "Se requiere el parámetro destino"])

\* `text ${destino}`
Tpl(text, destino) == <<text>> \o StringOf(destino)

negocio == <<"n", "e", "g", "o", "c", "i", "o">>
aventura == <<"a", "v", "e", "n", "t", "u", "r", "a">>
cultural == <<"c", "u", "l", "t", "u", "r", "a", "l">>
vacaciones == <<"v", "a", "c", "a", "c", "i", "o", "n", "e", "s">>
bajo == <<"b", "a", "j", "o">>
alto == <<"a", "l", "t", "o">>
medio == <<"m", "e", "d", "i", "o">>

NegocioTemplate(destino) ==
  << Tpl("Hoteles de negocios cercanos al centro financiero de ", destino),
     Tpl("Restaurantes con ambiente tranquilo para reuniones en ", destino),
     Tpl("Servicios de taxi o transporte ejecutivo en ", destino),
     Tpl("Espacios de coworking populares en ", destino),
     Tpl("Conexiones Wi-Fi confiables en ", destino) >>

AventuraTemplate(destino) ==
  << Tpl("Rutas de senderismo populares cerca de ", destino),
     Tpl("Empresas de deportes extremos en ", destino),
     Tpl("Parques naturales que debes visitar en ", destino),
     Tpl("Equipamiento necesario para actividades al aire libre en ", destino),
     Tpl("Hospedajes con acceso rápido a actividades de aventura en ", destino) >>

CulturalTemplate(destino) ==
  << Tpl("Museos imperdibles en ", destino),
     Tpl("Sitios históricos para visitar en ", destino),
     Tpl("Eventos culturales programados en ", destino),
     Tpl("Tours guiados por el patrimonio de ", destino),
     Tpl("Gastronomía típica que debes probar en ", destino) >>

VacacionesTemplate(destino) ==
  << Tpl("Atracciones turísticas principales de ", destino),
     Tpl("Mejores playas o parques en ", destino),
     Tpl("Opciones de entretenimiento familiar en ", destino),
     Tpl("Restaurantes mejor valorados de ", destino),
     Tpl("Consejos de seguridad para turistas en ", destino) >>

\* Faulty variant: cultural tested before negocio and aventura.
RecomendacionesCulturalFirst(tipoViaje, destino) ==
  IF includes(toLowerCase(tipoViaje), cultural) THEN CulturalTemplate(destino)
  ELSE IF includes(toLowerCase(tipoViaje), negocio) THEN NegocioTemplate(destino)
  ELSE IF includes(toLowerCase(tipoViaje), aventura) THEN AventuraTemplate(destino)
  ELSE VacacionesTemplate(destino)
\* The if / else-if chain over tipoViaje.toLowerCase().includes(...).
Recomendaciones(tipoViaje, destino) ==
  IF includes(toLowerCase(tipoViaje), negocio) THEN NegocioTemplate(destino)
  ELSE IF includes(toLowerCase(tipoViaje), aventura) THEN AventuraTemplate(destino)
  ELSE IF includes(toLowerCase(tipoViaje), cultural) THEN CulturalTemplate(destino)
  ELSE VacacionesTemplate(destino)

BajoTemplate(destino) ==
  <<"Para ahorrar dinero en ">> \o StringOf(destino)
    \o <<", considera usar transporte público, comer en mercados locales y buscar actividades gratuitas como parques y museos con entrada libre.">>

AltoTemplate(destino) ==
  <<"Con un presupuesto alto en ">> \o StringOf(destino)
    \o <<", puedes disfrutar de hoteles boutique de lujo, restaurantes exclusivos y excursiones privadas personalizadas.">>

MedioTemplate(destino) ==
  <<"Con un presupuesto medio en ">> \o StringOf(destino)
    \o <<", equilibra experiencias premium con opciones más económicas. Considera un hotel de 3-4 estrellas y mezcla restaurantes de diferentes categorías.">>

\* Faulty variant: includes(...) in place of ===.
ConsejoPresupuestoIncludes(presupuesto, destino) ==
  IF includes(toLowerCase(presupuesto), bajo) THEN BajoTemplate(destino)
  ELSE IF includes(toLowerCase(presupuesto), alto) THEN AltoTemplate(destino)
  ELSE MedioTemplate(destino)
\* The if / else-if chain over presupuesto.toLowerCase() === ...
ConsejoPresupuesto(presupuesto, destino) ==
  IF toLowerCase(presupuesto) = bajo THEN BajoTemplate(destino)
  ELSE IF toLowerCase(presupuesto) = alto THEN AltoTemplate(destino)
  ELSE MedioTemplate(destino)

\* The TypeError of x.toLowerCase() for an x that is not a string.
ToLowerCaseMessage(name, x) ==
  IF Nullish(x) THEN TypeErrorMessage(x, "toLowerCase")
  ELSE name \o ".toLowerCase is not a function"

\* The try block.
ConsejosTry(body) ==
  IF Nullish(body) THEN Throw(DestructureMessage(body, "destino"))
  ELSE
    LET destino == Get(body, "destino")
        tipoViaje == Default(Get(body, "tipoViaje"), Str(vacaciones))
        presupuesto == Default(Get(body, "presupuesto"), Str(medio))
    IN  IF ~Truthy(destino) THEN Return(MissingDestino)
        ELSE IF tipoViaje.t # "string"
          THEN Throw(ToLowerCaseMessage("tipoViaje", tipoViaje))
        ELSE IF presupuesto.t # "string"
          THEN Throw(ToLowerCaseMessage("presupuesto", presupuesto))
        ELSE Return(Reply(200,
               [destino |-> destino,
                tipoViaje |-> tipoViaje,
                presupuesto |-> presupuesto,
                recomendaciones |-> Recomendaciones(tipoViaje.v, destino),
                consejoPresupuesto |-> ConsejoPresupuesto(presupuesto.v, destino)]))

(***************************************************************************)
(* Requests, upstream outcomes and random draws the model explores.       *)
(***************************************************************************)
\* req.query, of the three parameters any handler reads.
Query(ciudad, fechaEntrada, fechaSalida) ==
  Obj([ciudad |-> ciudad, fechaEntrada |-> fechaEntrada, fechaSalida |-> fechaSalida])

\* req.body after bodyParser.json(), of the five properties any handler reads.
Body(origen, destino, fecha, tipoViaje, presupuesto) ==
  Obj([origen |-> origen, destino |-> destino, fecha |-> fecha,
       tipoViaje |-> tipoViaje, presupuesto |-> presupuesto])

Request(method, path, query, body) ==
  [method |-> method, path |-> path, query |-> query, body |-> body]

NoQuery == Query(Undef, Undef, Undef)
NoRequest == Request("", "", NoQuery, Undef)

Lima == <<"L", "i", "m", "a">>
Paris == <<"P", "a", "r", "i", "s">>
Bogota == <<"B", "o", "g", "o", "t", "a">>
Mayo1 == <<"2", "0", "2", "4", "-", "0", "5", "-", "0", "1">>
Mayo9 == <<"2", "0", "2", "4", "-", "0", "5", "-", "0", "9">>

\* A parameter that is absent, empty, or given.
Ciudades == {Undef, Str(<<>>), Str(Lima)}

TiposViaje ==
  { Undef, Null, Num(<<"5">>),
    Str(<<>>),
    Str(negocio),
    Str(<<"N", "E", "G", "O", "C", "I", "O">>),
    Str(<<"n", "e", "g", "o", "c", "i">>),
    Str(<<"A", "v", "e", "n", "t", "u", "r", "a">>),
    Str(cultural),
    Str(vacaciones),
    Str(<<"p", "l", "a", "y", "a">>),
    Str(cultural \o <<" ">> \o negocio),
    Str(cultural \o <<" ">> \o aventura),
    Str(<<"V", "i", "a", "j", "e", " ", "d", "e", " ">> \o aventura \o <<"s">>) }

Presupuestos ==
  { Undef, Null, Num(<<"5">>),
    Str(<<>>),
    Str(bajo),
    Str(<<"B", "A", "J", "O">>),
    Str(<<"A", "l", "t", "o">>),
    Str(medio),
    Str(bajo \o <<" ">>),
    Str(<<"m", "u", "y", " ">> \o alto),
    Str(<<"l", "u", "j", "o">>) }

Destinos == {Undef, Str(<<>>), Str(Paris), Num(<<"7">>)}

RootRequests == {Request("GET", "/", NoQuery, Undef)}
ToolsRequests == {Request("GET", "/tools", NoQuery, Undef)}
WikiRequests == {Request("GET", "/wiki", Query(c, Undef, Undef), Undef) : c \in Ciudades}
ClimaRequests == {Request("GET", "/clima", Query(c, Undef, Undef), Undef) : c \in Ciudades}
HospedajeRequests ==
  { Request("GET", "/hospedaje", Query(c, fe, fs), Undef) :
      c \in Ciudades, fe \in {Undef, Str(Mayo1)}, fs \in {Undef, Str(Mayo9)} }
\* A POST whose body was not parsed has req.body undefined; otherwise an object.
VuelosRequests ==
  {Request("POST", "/vuelos", NoQuery, Undef)} \cup
  { Request("POST", "/vuelos", NoQuery, Body(o, d, f, Undef, Undef)) :
      o \in {Undef, Str(<<>>), Str(Bogota)}, d \in {Undef, Str(Lima)},
      f \in {Undef, Str(Mayo1)} }
ConsejosRequests ==
  {Request("POST", "/consejos", NoQuery, Undef)} \cup
  { Request("POST", "/consejos", NoQuery, Body(Undef, d, Undef, t, p)) :
      d \in Destinos, t \in TiposViaje, p \in Presupuestos }

\* How axios.get on the encyclopedia summary API can settle.
WikiSummary ==
  Obj([title |-> Str(Lima), extract |-> Str(<<"Lima es la capital">>),
       content_urls |-> Obj([desktop |-> Obj([page |-> Str(<<"https://es.wikipedia.org/wiki/Lima">>)])]),
       thumbnail |-> Obj([source |-> Str(<<"https://upload.wikimedia.org/lima.jpg">>)])])
WikiBare == Obj([title |-> Str(Lima), extract |-> Str(<<"Lima es la capital">>)])
\* A 2xx body that is not JSON is left a string by axios.
Garbage == Str(<<"<html>">>)
NetworkError == Rejected("getaddrinfo ENOTFOUND")
NotFound == Rejected("Request failed with status code 404")
Unauthorized == Rejected("Request failed with status code 401")

WikiOutcomes ==
  { NetworkError, NotFound, Resolved(WikiSummary), Resolved(WikiBare),
    Resolved(Obj([content_urls |-> Obj([mobile |-> Null])])),
    Resolved(Garbage), Resolved(Null) }

\* How axios.get on the weather API can settle.
Weather(sys, main, weather) ==
  Obj([name |-> Str(Lima), sys |-> sys, main |-> main, weather |-> weather])
Sys == Obj([country |-> Str(<<"P", "E">>)])
Main == Obj([temp |-> Num(<<"2", "1">>), feels_like |-> Num(<<"2", "0">>),
             humidity |-> Num(<<"8", "0">>)])
Condition == Obj([description |-> Str(<<"nubes">>), icon |-> Str(<<"0", "4", "d">>)])

ClimaOutcomes ==
  { NetworkError, Unauthorized,
    Resolved(Weather(Sys, Main, Arr(<<Condition>>))),
    Resolved(Weather(Sys, Obj([humidity |-> Num(<<"8", "0">>)]), Arr(<<Obj([icon |-> Undef])>>))),
    Resolved(Weather(Undef, Main, Arr(<<Condition>>))),
    Resolved(Weather(Sys, Null, Arr(<<Condition>>))),
    Resolved(Weather(Sys, Main, Undef)),
    Resolved(Weather(Sys, Main, Arr(<<>>))),
    Resolved(Garbage), Resolved(Null) }

\* Math.random() values explored: the least, the middle and the greatest.
DrawPoints == {0, RandDen \div 2, RandDen - 1}

\* What a single client issuing one request at a time can send and meet.
Full ==
  [ requests |-> RootRequests \cup ToolsRequests \cup WikiRequests \cup ClimaRequests
                   \cup VuelosRequests \cup HospedajeRequests \cup ConsejosRequests,
    wiki |-> WikiOutcomes,
    clima |-> ClimaOutcomes,
    draws3 |-> [1..3 -> DrawPoints],
    draws6 |-> [1..6 -> DrawPoints],
    keys |-> {Undef, Str(<<>>), Str(<<"k", "e", "y">>)} ]

\* What concurrent clients send and meet: fewer inputs, several in flight.
Few ==
  [ requests |->
      RootRequests \cup ToolsRequests \cup
      { Request("GET", "/wiki", Query(Str(Lima), Undef, Undef), Undef),
        Request("GET", "/clima", Query(Str(Lima), Undef, Undef), Undef),
        Request("GET", "/hospedaje", Query(Str(Lima), Undef, Undef), Undef),
        Request("POST", "/vuelos", NoQuery,
                Body(Str(Bogota), Str(Lima), Str(Mayo1), Undef, Undef)),
        Request("POST", "/consejos", NoQuery,
                Body(Undef, Str(Paris), Undef, Str(aventura), Undef)),
        Request("POST", "/consejos", NoQuery,
                Body(Undef, Str(Lima), Undef, Str(negocio), Str(bajo))) },
    wiki |-> {NetworkError, Resolved(WikiSummary), Resolved(Garbage)},
    clima |-> {Unauthorized, Resolved(Weather(Sys, Main, Arr(<<Condition>>))),
               Resolved(Garbage)},
    draws3 |-> {[k \in 1..3 |-> p] : p \in {0, RandDen - 1}},
    draws6 |-> {[k \in 1..6 |-> p] : p \in {0, RandDen - 1}},
    keys |-> {Undef, Str(<<>>), Str(<<"k", "e", "y">>)} ]

(***************************************************************************)
(* The state machine.                                                      *)
(***************************************************************************)
\* env      process.env.OPENWEATHER_API_KEY
\* pc       where each slot's handler stands
\* req      the request each slot holds
\* outbound the URLs each request has called with axios.get, in order
\* response how each request's awaited call settled
\* rnd      the Math.random() draws each request took
\* res      the replies sent on each request's response, in order
\* crashed  the process died of an uncaught error
InitWith(P) ==
  /\ env \in P.keys
  /\ pc = [i \in Slots |-> "idle"]
  /\ req = [i \in Slots |-> NoRequest]
  /\ outbound = [i \in Slots |-> <<>>]
  /\ response = [i \in Slots |-> NoCall]
  /\ rnd = [i \in Slots |-> <<>>]
  /\ res = [i \in Slots |-> <<>>]
  /\ crashed = FALSE

\* The router hands a request to its handler: app.get / app.post.
Receive(i, P) ==
  /\ ~crashed
  /\ pc[i] = "idle"
  /\ \E r \in P.requests : req' = [req EXCEPT ![i] = r]
  /\ pc' = [pc EXCEPT ![i] = "received"]
  /\ UNCHANGED <<env, outbound, response, rnd, res, crashed>>

Routed(i, method, path) ==
  /\ ~crashed
  /\ pc[i] = "received"
  /\ req[i].method = method
  /\ req[i].path = path

\* Faulty variant: `response` is one variable shared by all invocations, so a
\* handler can resume on the result of another request's call.
AwaitedShared(i) ==
  IF response[1].kind \in {"rejected", "resolved"} THEN response[1] ELSE response[i]
\* `const response = await ...`: each invocation reads its own awaited result.
Awaited(i) == response[i]

\* The handler at path leaves its try block with completion c: it replies, or
\* its catch block replies, or it suspends on the outbound call.  An error
\* thrown outside a try block is uncaught.
Complete(i, path, c) ==
  \/ /\ c.c = "return"
     /\ res' = [res EXCEPT ![i] = Append(@, c.reply)]
     /\ pc' = [pc EXCEPT ![i] = "done"]
     /\ UNCHANGED <<outbound, response, crashed>>
  \/ /\ c.c = "throw"
     /\ IF TryCatch(path)
          THEN /\ res' = [res EXCEPT ![i] = Append(@, Catch(path, c.message))]
               /\ pc' = [pc EXCEPT ![i] = "done"]
               /\ UNCHANGED crashed
          ELSE /\ crashed' = TRUE
               /\ pc' = [pc EXCEPT ![i] = "faulted"]
               /\ UNCHANGED res
     /\ UNCHANGED <<outbound, response>>
  \/ /\ c.c = "await"
     /\ outbound' = [outbound EXCEPT ![i] = Append(@, c.url)]
     /\ response' = [response EXCEPT ![i] = Pending]
     /\ pc' = [pc EXCEPT ![i] = "awaiting"]
     /\ UNCHANGED <<res, crashed>>

Root(i) ==
  /\ Routed(i, "GET", "/")
  /\ Complete(i, "/", Return(RootReply))
  /\ UNCHANGED <<env, req, rnd>>

Tools(i) ==
  /\ Routed(i, "GET", "/tools")
  /\ Complete(i, "/tools", Return(ToolsReply))
  /\ UNCHANGED <<env, req, rnd>>

WikiStart(i) ==
  /\ Routed(i, "GET", "/wiki")
  /\ Complete(i, "/wiki", WikiTry(req[i].query))
  /\ UNCHANGED <<env, req, rnd>>

ClimaStart(i) ==
  /\ Routed(i, "GET", "/clima")
  /\ Complete(i, "/clima", ClimaTry(req[i].query, env))
  /\ UNCHANGED <<env, req, rnd>>

\* The outbound call of a suspended handler settles.
AxiosSettle(i, P) ==
  /\ ~crashed
  /\ pc[i] = "awaiting"
  /\ \E r \in (IF req[i].path = "/wiki" THEN P.wiki ELSE P.clima) :
       response' = [response EXCEPT ![i] = r]
  /\ pc' = [pc EXCEPT ![i] = "settled"]
  /\ UNCHANGED <<env, req, outbound, rnd, res, crashed>>

WikiResume(i) ==
  /\ ~crashed
  /\ pc[i] = "settled"
  /\ req[i].path = "/wiki"
  /\ Complete(i, "/wiki", WikiResumeTry(Awaited(i)))
  /\ UNCHANGED <<env, req, rnd>>

ClimaResume(i) ==
  /\ ~crashed
  /\ pc[i] = "settled"
  /\ req[i].path = "/clima"
  /\ Complete(i, "/clima", ClimaResumeTry(Awaited(i)))
  /\ UNCHANGED <<env, req, rnd>>

Vuelos(i, P) ==
  /\ Routed(i, "POST", "/vuelos")
  /\ \E d \in (IF VuelosDraws(req[i].body) THEN P.draws6 ELSE {<<>>}) :
       /\ rnd' = [rnd EXCEPT ![i] = d]
       /\ Complete(i, "/vuelos", VuelosTry(req[i].body, d))
  /\ UNCHANGED <<env, req>>

Hospedajes(i, P) ==
  /\ Routed(i, "GET", "/hospedaje")
  /\ \E d \in (IF HospedajeDraws(req[i].query) THEN P.draws3 ELSE {<<>>}) :
       /\ rnd' = [rnd EXCEPT ![i] = d]
       /\ Complete(i, "/hospedaje", HospedajeTry(req[i].query, d))
  /\ UNCHANGED <<env, req>>

Consejos(i) ==
  /\ Routed(i, "POST", "/consejos")
  /\ Complete(i, "/consejos", ConsejosTry(req[i].body))
  /\ UNCHANGED <<env, req, rnd>>

\* The exchange is over; the slot can hold the next request.
Recycle(i) ==
  /\ ~crashed
  /\ pc[i] = "done"
  /\ pc' = [pc EXCEPT ![i] = "idle"]
  /\ req' = [req EXCEPT ![i] = NoRequest]
  /\ outbound' = [outbound EXCEPT ![i] = <<>>]
  /\ response' = [response EXCEPT ![i] = NoCall]
  /\ rnd' = [rnd EXCEPT ![i] = <<>>]
  /\ res' = [res EXCEPT ![i] = <<>>]
  /\ UNCHANGED <<env, crashed>>

Step(i, P) ==
  \/ Receive(i, P)
  \/ Root(i)
  \/ Tools(i)
  \/ WikiStart(i)
  \/ ClimaStart(i)
  \/ AxiosSettle(i, P)
  \/ WikiResume(i)
  \/ ClimaResume(i)
  \/ Vuelos(i, P)
  \/ Hospedajes(i, P)
  \/ Consejos(i)
  \/ Recycle(i)

\* One client, one request at a time, every input.
Init == InitWith(Full)
Next == Step(1, Full)
Spec == Init /\ [][Next]_vars

\* Several requests in flight, interleaved at the await points.
InitConc == InitWith(Few)
NextConc == \E i \in Slots : Step(i, Few)
SpecConc == InitConc /\ [][NextConc]_vars

(***************************************************************************)
(* Vocabulary of the properties.                                           *)
(***************************************************************************)
Done(i) == pc[i] = "done"
\* The handler of slot i has run at least its first step.
Handled(i) == pc[i] \notin {"idle", "received"}
Sent(i) == res[i][1]
Ciudad(i) == Get(req[i].query, "ciudad")
HasBody(i) == ~Nullish(req[i].body)
Field(i, k) == Get(req[i].body, k)
StringOrAbsent(x) == x.t \in {"string", "undefined"}

\* kw occurs in s, letter case ignored.
MatchesIgnoringCase(s, kw) ==
  \E a \in 1..Len(s) :
    /\ a + Len(kw) - 1 <= Len(s)
    /\ \A j \in 1..Len(kw) : LowerOf(s[a + j - 1]) = LowerOf(kw[j])

\* s is kw, letter case ignored.
EqualsIgnoringCase(s, kw) ==
  /\ Len(s) = Len(kw)
  /\ \A j \in 1..Len(kw) : LowerOf(s[j]) = LowerOf(kw[j])

EndsWith(s, tail) ==
  /\ Len(s) >= Len(tail)
  /\ SubSeq(s, Len(s) - Len(tail) + 1, Len(s)) = tail

DigitChars == {"0", "1", "2", "3", "4", "5", "6", "7", "8", "9"}

\* ^prefix\d{1,3}$, the digits those of an integer
IsFlightNumber(x, prefix) ==
  /\ x.t = "string"
  /\ Len(x.v) \in 3..5
  /\ SubSeq(x.v, 1, 2) = prefix
  /\ \A k \in 3..Len(x.v) : x.v[k] \in DigitChars
  /\ Len(x.v) > 3 => x.v[3] # "0"

(***************************************************************************)
(* C1: a GET /wiki or GET /clima whose query lacks ciudad is answered 400  *)
(* with an error field, whatever the weather credential, and calls no      *)
(* upstream.                                                               *)
(***************************************************************************)
C1_MissingCiudadIs400 ==
  \A i \in Slots :
    (/\ Handled(i)
     /\ req[i].path \in {"/wiki", "/clima"}
     /\ ~Truthy(Ciudad(i)))
    => /\ Done(i)
       /\ Len(res[i]) = 1
       /\ Sent(i).status = 400
       /\ "error" \in DOMAIN Sent(i).body
       /\ outbound[i] = <<>>

C1_Witness ==
  \E i \in Slots :
    /\ Done(i)
    /\ req[i].path = "/clima"
    /\ Ciudad(i) = Undef
    /\ ~Truthy(env)
    /\ Sent(i).status = 400

C3_MissingKeyIs500 ==
  /\ ~crashed
  /\ \A i \in Slots :
       /\ (/\ Handled(i)
           /\ req[i].path = "/clima"
           /\ Truthy(Ciudad(i))
           /\ ~Truthy(env))
          => /\ Done(i)
             /\ Len(res[i]) = 1
             /\ Sent(i) = MissingKey
             /\ Sent(i).status = 500
             /\ outbound[i] = <<>>
       /\ (Done(i) /\ req[i].path # "/clima") => Sent(i) # MissingKey

C3_Witness ==
  /\ ~Truthy(env)
  /\ \E i, j \in Slots :
       /\ Done(i)
       /\ req[i].path = "/clima"
       /\ Truthy(Ciudad(i))
       /\ Sent(i).status = 500
       /\ Done(j)
       /\ req[j].path = "/consejos"
       /\ Sent(j).status = 200

(***************************************************************************)
(* C4: POST /consejos picks recomendaciones among four fixed templates of  *)
(* five strings, each with destino interpolated, by the first of negocio,  *)
(* aventura, cultural that occurs in tipoViaje ignoring case, else the     *)
(* general template.                                                       *)
(***************************************************************************)
C4_Expected(i) ==
  LET d == Field(i, "destino")
      t == Default(Field(i, "tipoViaje"), Str(vacaciones)).v
      r == Sent(i).body.recomendaciones
  IN  /\ Sent(i).status = 200
      /\ r \in {NegocioTemplate(d), AventuraTemplate(d), CulturalTemplate(d),
                VacacionesTemplate(d)}
      /\ Len(r) = 5
      /\ \A k \in 1..5 : EndsWith(r[k], StringOf(d))
      /\ MatchesIgnoringCase(t, negocio) => r = NegocioTemplate(d)
      /\ (~MatchesIgnoringCase(t, negocio) /\ MatchesIgnoringCase(t, aventura))
           => r = AventuraTemplate(d)
      /\ (/\ ~MatchesIgnoringCase(t, negocio)
          /\ ~MatchesIgnoringCase(t, aventura)
          /\ MatchesIgnoringCase(t, cultural))
           => r = CulturalTemplate(d)
      /\ (/\ ~MatchesIgnoringCase(t, negocio)
          /\ ~MatchesIgnoringCase(t, aventura)
          /\ ~MatchesIgnoringCase(t, cultural))
           => r = VacacionesTemplate(d)

\* C4 as stated: for every request with destino and a string (or absent) tipoViaje.
C4_Original ==
  \A i \in Slots :
    (/\ Done(i)
     /\ req[i].path = "/consejos"
     /\ HasBody(i)
     /\ Truthy(Field(i, "destino"))
     /\ StringOrAbsent(Field(i, "tipoViaje")))
    => C4_Expected(i)

\* C4 amended: for every such request whose presupuesto is a string or absent too.
C4_Recomendaciones ==
  \A i \in Slots :
    (/\ Done(i)
     /\ req[i].path = "/consejos"
     /\ HasBody(i)
     /\ Truthy(Field(i, "destino"))
     /\ StringOrAbsent(Field(i, "tipoViaje"))
     /\ StringOrAbsent(Field(i, "presupuesto")))
    => C4_Expected(i)

C4_Witness ==
  \E i \in Slots :
    /\ Done(i)
    /\ req[i].path = "/consejos"
    /\ HasBody(i)
    /\ Field(i, "destino") = Str(Paris)
    /\ Field(i, "tipoViaje") = Str(cultural \o <<" ">> \o negocio)
    /\ Sent(i).status = 200
    /\ Sent(i).body.recomendaciones = NegocioTemplate(Str(Paris))

(***************************************************************************)
(* C5: POST /consejos picks consejoPresupuesto by presupuesto alone: the   *)
(* bajo note when it is "bajo" ignoring case, the alto note when it is     *)
(* "alto", the medio note for anything else or when absent; destino is     *)
(* interpolated.                                                           *)
(***************************************************************************)
C5_Expected(i) ==
  LET d == Field(i, "destino")
      p == Default(Field(i, "presupuesto"), Str(medio))
      c == Sent(i).body.consejoPresupuesto
  IN  /\ Sent(i).status = 200
      /\ c = IF p.t = "string" /\ EqualsIgnoringCase(p.v, bajo) THEN BajoTemplate(d)
             ELSE IF p.t = "string" /\ EqualsIgnoringCase(p.v, alto) THEN AltoTemplate(d)
             ELSE MedioTemplate(d)
      /\ SubSeq(c, 2, 1 + Len(StringOf(d))) = StringOf(d)

\* C5 as stated: for every request with destino present, any other value being medio.
C5_Original ==
  \A i \in Slots :
    (/\ Done(i)
     /\ req[i].path = "/consejos"
     /\ HasBody(i)
     /\ Truthy(Field(i, "destino")))
    => C5_Expected(i)

\* C5 amended: for every such request whose tipoViaje and presupuesto are strings
\* or absent.
C5_ConsejoPresupuesto ==
  \A i \in Slots :
    (/\ Done(i)
     /\ req[i].path = "/consejos"
     /\ HasBody(i)
     /\ Truthy(Field(i, "destino"))
     /\ StringOrAbsent(Field(i, "tipoViaje"))
     /\ StringOrAbsent(Field(i, "presupuesto")))
    => C5_Expected(i)

C5_Witness ==
  \E i \in Slots :
    /\ Done(i)
    /\ req[i].path = "/consejos"
    /\ HasBody(i)
    /\ Field(i, "destino") = Str(Paris)
    /\ Field(i, "tipoViaje") = Str(negocio)
    /\ Field(i, "presupuesto") = Str(<<"m", "u", "y", " ">> \o alto)
    /\ Sent(i).status = 200
    /\ Sent(i).body.consejoPresupuesto = MedioTemplate(Str(Paris))

(***************************************************************************)
(* C6: a POST /vuelos with origen, destino and fecha is answered 200 with  *)
(* three offers, Avianca, LATAM, Copa Airlines in that order, each echoing *)
(* origen, destino and fecha, numbered AV / LA / CM plus an integer in     *)
(* 0..999, priced in [200,500), [180,480), [220,520), whatever the draws.  *)
(***************************************************************************)
C6_Offer(v, i, aerolinea, prefix, low, high) ==
  /\ v.aerolinea = aerolinea
  /\ IsFlightNumber(v.numeroVuelo, prefix)
  /\ v.origen = Field(i, "origen")
  /\ v.destino = Field(i, "destino")
  /\ v.fecha = Field(i, "fecha")
  /\ v.precio \in Int
  /\ low <= v.precio
  /\ v.precio < high

\* C6: every validated POST /vuelos gets the three offers described above.
C6_Vuelos ==
  \A i \in Slots :
    (/\ Done(i)
     /\ req[i].path = "/vuelos"
     /\ HasBody(i)
     /\ \A k \in {"origen", "destino", "fecha"} : Truthy(Field(i, k)))
    => /\ Len(res[i]) = 1
       /\ Sent(i).status = 200
       /\ Len(Sent(i).body.vuelos) = 3
       /\ C6_Offer(Sent(i).body.vuelos[1], i, "Avianca", <<"A", "V">>, 200, 500)
       /\ C6_Offer(Sent(i).body.vuelos[2], i, "LATAM", <<"L", "A">>, 180, 480)
       /\ C6_Offer(Sent(i).body.vuelos[3], i, "Copa Airlines", <<"C", "M">>, 220, 520)

\* Every draw at its greatest: the top of each range is met.
C6_Witness ==
  \E i \in Slots :
    /\ Done(i)
    /\ req[i].path = "/vuelos"
    /\ rnd[i] = [k \in 1..6 |-> RandDen - 1]
    /\ Sent(i).status = 200
    /\ Sent(i).body.vuelos[1].precio = 499
    /\ Sent(i).body.vuelos[2].precio = 479
    /\ Sent(i).body.vuelos[3].precio = 519
    /\ Len(Sent(i).body.vuelos[3].numeroVuelo.v) = 5

(***************************************************************************)
(* C7: a GET /hospedaje with ciudad is answered 200 with three offers,     *)
(* apartment, hotel, house, whose ubicacion is built from ciudad and whose *)
(* prices lie in [50,150), [80,230), [120,320), whatever the draws;        *)
(* fechaEntrada and fechaSalida change nothing; without ciudad it is 400.  *)
(***************************************************************************)
C7_Offer(h, i, nombre, tipo, zona, low, high) ==
  /\ h.nombre = nombre
  /\ h.tipo = tipo
  /\ h.ubicacion = Str(<<zona>> \o StringOf(Ciudad(i)))
  /\ includes(h.ubicacion.v, StringOf(Ciudad(i)))
  /\ h.precio \in Int
  /\ low <= h.precio
  /\ h.precio < high

\* C7: every GET /hospedaje gets the three offers described above, or 400.
C7_Hospedaje ==
  \A i \in Slots :
    (Done(i) /\ req[i].path = "/hospedaje")
    => /\ Len(res[i]) = 1
       /\ IF Truthy(Ciudad(i))
            THEN /\ Sent(i).status = 200
                 /\ Len(Sent(i).body.hospedajes) = 3
                 /\ C7_Offer(Sent(i).body.hospedajes[1], i, "Apartamento Céntrico",
                             "Apartamento entero", "Centro de ", 50, 150)
                 /\ C7_Offer(Sent(i).body.hospedajes[2], i, "Hotel Boutique",
                             "Habitación de hotel", "Zona turística de ", 80, 230)
                 /\ C7_Offer(Sent(i).body.hospedajes[3], i, "Casa Familiar",
                             "Casa entera", "Zona residencial de ", 120, 320)
            ELSE Sent(i).status = 400

\* Both dates given, every draw at its greatest.
C7_Witness ==
  \E i \in Slots :
    /\ Done(i)
    /\ req[i].path = "/hospedaje"
    /\ Ciudad(i) = Str(Lima)
    /\ Get(req[i].query, "fechaEntrada") = Str(Mayo1)
    /\ Get(req[i].query, "fechaSalida") = Str(Mayo9)
    /\ rnd[i] = [k \in 1..3 |-> RandDen - 1]
    /\ Sent(i).status = 200
    /\ Sent(i).body.hospedajes[1].precio = 149
    /\ Sent(i).body.hospedajes[2].precio = 229
    /\ Sent(i).body.hospedajes[3].precio = 319

(***************************************************************************)
(* C8: a request makes at most one outbound call and never retries: /wiki  *)
(* and /clima call once when validation passes and not at all when it      *)
(* fails, the other handlers never call; a failed call ends the request    *)
(* with 500 and the error message.                                         *)
(***************************************************************************)
\* Validation of slot i's request lets the handler reach its outbound call.
C8_PassesValidation(i) ==
  \/ req[i].path = "/wiki" /\ Truthy(Ciudad(i))
  \/ req[i].path = "/clima" /\ Truthy(Ciudad(i)) /\ Truthy(env)

C8_Calls ==
  \A i \in Slots :
    /\ Len(outbound[i]) <= 1
    /\ Handled(i) => (Len(outbound[i]) = 1 <=> C8_PassesValidation(i))
    /\ ~Handled(i) => outbound[i] = <<>>

\* The properties the handler at path maps from the upstream body.
C8_Mapped(path) ==
  IF path = "/wiki" THEN {"title", "extract", "content_urls", "thumbnail"}
  ELSE {"name", "sys", "main", "weather"}

\* None of the fields the handler maps can be read from the upstream body.
C8_CannotBeMapped(path, data) ==
  Nullish(data) \/ \A k \in C8_Mapped(path) : Get(data, k) = Undef

\* Reading the fields the handler maps throws.
C8_MappingThrows(path, data) ==
  \/ Nullish(data)
  \/ /\ path = "/clima"
     /\ \/ Nullish(Get(data, "sys"))
        \/ Nullish(Get(data, "main"))
        \/ Nullish(Get(data, "weather"))
        \/ Nullish(First(Get(data, "weather")))

\* C8 as stated: a rejected call, or a response whose fields cannot be mapped,
\* ends the request with 500.
C8_Original ==
  /\ C8_Calls
  /\ \A i \in Slots :
       (/\ Done(i)
        /\ Len(outbound[i]) = 1
        /\ \/ response[i].kind = "rejected"
           \/ /\ response[i].kind = "resolved"
              /\ C8_CannotBeMapped(req[i].path, response[i].data))
       => Sent(i).status = 500

\* C8 amended: a rejected call, or a response from which reading the mapped
\* fields throws, ends the request with 500 and the message; any other
\* response ends it with 200.
C8_OneCallNoRetry ==
  /\ C8_Calls
  /\ \A i \in Slots :
       (Done(i) /\ Len(outbound[i]) = 1)
       => /\ Len(res[i]) = 1
          /\ response[i].kind \in {"rejected", "resolved"}
          /\ response[i].kind = "rejected"
               => /\ Sent(i).status = 500
                  /\ Sent(i).body.mensaje = response[i].message
          /\ (/\ response[i].kind = "resolved"
              /\ C8_MappingThrows(req[i].path, response[i].data))
               => /\ Sent(i).status = 500
                  /\ "mensaje" \in DOMAIN Sent(i).body
          /\ (/\ response[i].kind = "resolved"
              /\ ~C8_MappingThrows(req[i].path, response[i].data))
               => Sent(i).status = 200

C8_Witness ==
  \E i \in Slots :
    /\ Done(i)
    /\ req[i].path = "/clima"
    /\ Len(outbound[i]) = 1
    /\ response[i] = Unauthorized
    /\ Sent(i).status = 500
    /\ Sent(i).body.mensaje = "Request failed with status code 401"

(***************************************************************************)
(* C9: every handler wraps its body in one failure boundary that turns     *)
(* any fault into the 500 reply; every request, also one whose fields      *)
(* have unexpected types, gets exactly one reply and the process never     *)
(* dies of a request-handling fault.                                       *)
(***************************************************************************)
\* C9 as stated: every handler that runs has the failure boundary.
C9_Original ==
  \A i \in Slots : Handled(i) => TryCatch(req[i].path)

\* A field of a type the handler does not expect.
C9_UnexpectedType(i) ==
  /\ req[i].path = "/consejos"
  /\ HasBody(i)
  /\ Truthy(Field(i, "destino"))
  /\ \/ ~StringOrAbsent(Field(i, "tipoViaje"))
     \/ ~StringOrAbsent(Field(i, "presupuesto"))

\* C9 amended: the five handlers other than / and /tools have the boundary;
\* every request gets at most one reply, exactly one once its handler has
\* finished, a fault is answered 500, and the process never dies.
C9_OneReplyNoCrash ==
  /\ ~crashed
  /\ \A i \in Slots :
       /\ pc[i] \in {"idle", "received", "awaiting", "settled", "done"}
       /\ Len(res[i]) <= 1
       /\ Done(i) <=> Len(res[i]) = 1
       /\ (pc[i] # "idle" /\ req[i].path \notin {"/", "/tools"})
            => TryCatch(req[i].path)
       /\ (Done(i) /\ (C9_UnexpectedType(i) \/ (~HasBody(i) /\ req[i].method = "POST")))
            => Sent(i).status = 500

C9_Witness ==
  \E i \in Slots :
    /\ Done(i)
    /\ req[i].path = "/consejos"
    /\ HasBody(i)
    /\ Field(i, "destino") = Str(Paris)
    /\ Field(i, "tipoViaje") = Num(<<"5">>)
    /\ Sent(i).status = 500
    /\ Sent(i).body.mensaje = "tipoViaje.toLowerCase is not a function"
    /\ ~crashed

(***************************************************************************)
(* C10: requests are handled independently under every interleaving: the   *)
(* reply to a request is determined by that request's own inputs, its own  *)
(* upstream result or draws, and the credential; identical /consejos       *)
(* requests get identical replies whatever else is in flight.              *)
(***************************************************************************)
\* The reply a completion leads to.
C10_Final(path, c) == IF c.c = "return" THEN c.reply ELSE Catch(path, c.message)

\* The reply to request r alone, given how its call settles and its draws.
C10_Alone(r, result, d, key) ==
  CASE r.path = "/" -> RootReply
    [] r.path = "/tools" -> ToolsReply
    [] r.path = "/wiki" ->
         IF WikiTry(r.query).c = "await"
           THEN C10_Final(r.path, WikiResumeTry(result))
           ELSE C10_Final(r.path, WikiTry(r.query))
    [] r.path = "/clima" ->
         IF ClimaTry(r.query, key).c = "await"
           THEN C10_Final(r.path, ClimaResumeTry(result))
           ELSE C10_Final(r.path, ClimaTry(r.query, key))
    [] r.path = "/vuelos" -> C10_Final(r.path, VuelosTry(r.body, d))
    [] r.path = "/hospedaje" -> C10_Final(r.path, HospedajeTry(r.query, d))
    [] r.path = "/consejos" -> C10_Final(r.path, ConsejosTry(r.body))

\* C10: every reply is the one its request would get alone, and identical
\* /consejos requests get identical replies.
C10_Independent ==
  /\ \A i \in Slots :
       Done(i) => res[i] = <<C10_Alone(req[i], response[i], rnd[i], env)>>
  /\ \A i, j \in Slots :
       (Done(i) /\ Done(j) /\ req[i].path = "/consejos" /\ req[i] = req[j])
       => res[i] = res[j]

\* Two identical /wiki requests in flight whose calls settled differently: one
\* has resumed and replied from its own result, the other has yet to resume.
C10_Witness ==
  \E i, j \in Slots :
    /\ i # j
    /\ Done(i)
    /\ req[i].path = "/wiki"
    /\ response[i] = Resolved(WikiSummary)
    /\ Sent(i).status = 200
    /\ pc[j] = "settled"
    /\ req[j].path = "/wiki"
    /\ response[j] = NetworkError

====
